---- MODULE Spec2Model ----
(***************************************************************************)
(* Feature engineering (prepare_features) and the iterative forecast       *)
(* (predict_future) of src/utils.py.                                       *)
(*                                                                         *)
(* Representation.  Quantities and raw model outputs are integers.  A      *)
(* period (pandas Timestamp of the first day of a month) is the number of  *)
(* months Tahun*12 + Bulan - 1, so that DateOffset(months=n) is + n.       *)
(* Moving averages are kept in 60ths (60 = lcm of the window sizes 1..6),  *)
(* which makes every mean of up to six integers exact.  std_pred is kept   *)
(* in 10ths, and the confidence bounds in 1000ths, so that 1.96 * std_pred *)
(* is the integer 196 * std_pred.  A float that may be NaN is a record     *)
(* [nan, v].  An optional cell (NaN before fillna) is a sequence of length *)
(* 0 or 1.                                                                 *)
(***************************************************************************)
EXTENDS Integers, Sequences, FiniteSets, TLC

VARIABLES raw, feature_table,
          df, model, months,
          pc, last_data, std_pred, future_preds, i, k,
          result, messages,
          calls, residual_invoked,
          ncalls, first,
          session_state

vars == <<raw, feature_table, df, model, months, pc, last_data, std_pred,
          future_preds, i, k, result, messages, calls, residual_invoked,
          ncalls, first, session_state>>


----------------------------------------------------------------------------
(* Bounds of the model *)

MaxRows == 3
MaxBuildRows == 3
MaxHistory == 4
MaxLong == 7
MaxMonths == 4
MaxFails == 1
MaxCalls == 3

Items == {"A", "B"}
Qtys == {1, 3}

----------------------------------------------------------------------------
(* Generic helpers *)

Min(a, b) == IF a <= b THEN a ELSE b
Max(a, b) == IF a >= b THEN a ELSE b

RECURSIVE SumSeq(_)
SumSeq(s) == IF s = <<>> THEN 0 ELSE s[1] + SumSeq(Tail(s))

Range(s) == {s[n] : n \in DOMAIN s}

SeqsUpTo(S, n) == UNION {[1..m -> S] : m \in 0..n}

\* Order of the product names in sort_values: Python str comparison, a
\* null name last.
ItemOrd(name) == IF name = "A" THEN 1 ELSE IF name = "B" THEN 2 ELSE 3

----------------------------------------------------------------------------
(* Periods: pd.to_datetime("<Tahun>-<Bulan>-01") and pd.DateOffset(months=n) *)

Period(tahun, bulan) == tahun * 12 + bulan - 1
AddMonths(p, n) == p + n
YearOf(p) == p \div 12
MonthOf(p) == (p % 12) + 1

Quarter(bulan) == ((bulan - 1) \div 3) + 1
IsStartYear(bulan) == IF bulan = 1 THEN 1 ELSE 0
IsEndYear(bulan) == IF bulan = 12 THEN 1 ELSE 0

----------------------------------------------------------------------------
(* Tables.  A table handle is [isnull, rows]; None is the null handle.     *)

NoneTable == [isnull |-> TRUE, rows |-> <<>>]
Table(rows) == [isnull |-> FALSE, rows |-> rows]

\* Order of df.sort_values(['Nama Item', 'periode']).
RowLeq(a, b) ==
    \/ ItemOrd(a.Nama_Item) < ItemOrd(b.Nama_Item)
    \/ a.Nama_Item = b.Nama_Item /\ a.periode <= b.periode

\* Insert x behind every row that is not greater: ties keep input order.
RECURSIVE InsertRow(_, _)
InsertRow(x, s) ==
    IF s = <<>> THEN <<x>>
    ELSE IF RowLeq(s[1], x) THEN <<s[1]>> \o InsertRow(x, Tail(s))
    ELSE <<x>> \o s

RECURSIVE SortAfter(_, _)
SortAfter(done, rest) ==
    IF rest = <<>> THEN done
    ELSE SortAfter(InsertRow(rest[1], done), Tail(rest))

\* sort_values on two columns is a stable lexicographic sort.
SortValues(rows) == SortAfter(<<>>, rows)

----------------------------------------------------------------------------
(* Raw tables.  A frame is [columns, rows].  A cell of the columns Tahun,  *)
(* Bulan and total_jumlah is a number, a null or a text that is not a      *)
(* number; a cell of Nama Item is a name or the null name (read_csv reads  *)
(* the text NaN as a null).  The column 'Nama Item' is the field Nama_Item.*)

\* required_cols, line 54
RequiredCols == {"Tahun", "Bulan", "Nama_Item", "total_jumlah"}

NumCell(x) == [kind |-> "num", v |-> x]
NullCell == [kind |-> "null", v |-> 0]
TextCell == [kind |-> "text", v |-> 0]
NullName == "NaN"

RawRow(tahun, bulan, item, qty) ==
    [Tahun |-> NumCell(tahun), Bulan |-> NumCell(bulan), Nama_Item |-> item,
     total_jumlah |-> NumCell(qty)]

\* A frame holding the required columns.
Frame(rows) == [columns |-> RequiredCols, rows |-> rows]

\* isnull() of a cell.
IsNullCell(col, r) ==
    IF col = "Nama_Item" THEN r[col] = NullName ELSE r[col].kind = "null"

\* The numbers held by a numeric column (min, max and any skip the nulls).
Numbers(rows, col) ==
    {rows[n][col].v : n \in {m \in DOMAIN rows : rows[m][col].kind = "num"}}

----------------------------------------------------------------------------
(* validate_dataframe                                                      *)

\* pd.to_numeric(..., errors='coerce') on one cell.
ToNumeric(cell) == IF cell.kind = "text" THEN NullCell ELSE cell

\* Lines 64-66: the three assignments, made on the frame that was passed.
CoerceRow(r) ==
    [Tahun |-> ToNumeric(r.Tahun), Bulan |-> ToNumeric(r.Bulan),
     Nama_Item |-> r.Nama_Item, total_jumlah |-> ToNumeric(r.total_jumlah)]

\* As ValidateDataframe, without the check for an empty table.
ValidateNoEmptyCheck(f) ==
    IF RequiredCols \ f.columns # {}
    THEN [is_valid |-> FALSE,
          errors |-> {"Kolom yang diperlukan tidak ditemukan"},
          warnings |-> {}, frame |-> f]
    ELSE LET rows == [n \in DOMAIN f.rows |-> CoerceRow(f.rows[n])]
             bad_month == \E b \in Numbers(rows, "Bulan") : b < 1 \/ b > 12
         IN  [is_valid |-> ~bad_month,
              errors |-> IF bad_month THEN {"Bulan harus antara 1-12"}
                         ELSE {},
              warnings |-> {},
              frame |-> [columns |-> f.columns, rows |-> rows]]

\* Returns the validation result and the passed frame as the call leaves it.
ValidateDataframe(f) ==
    IF RequiredCols \ f.columns # {}
    THEN [is_valid |-> FALSE,
          errors |-> {"Kolom yang diperlukan tidak ditemukan"},
          warnings |-> {}, frame |-> f]
    ELSE LET rows == [n \in DOMAIN f.rows |-> CoerceRow(f.rows[n])]
             missing == \E n \in DOMAIN rows :
                            \E col \in RequiredCols : IsNullCell(col, rows[n])
             odd_year == \E t \in Numbers(rows, "Tahun") :
                             t < 1900 \/ t > 2100
             bad_month == \E b \in Numbers(rows, "Bulan") : b < 1 \/ b > 12
             negative == \E q \in Numbers(rows, "total_jumlah") : q < 0
             empty == rows = <<>>
         IN  [is_valid |-> ~bad_month /\ ~empty,
              errors |->
                 (IF bad_month THEN {"Bulan harus antara 1-12"} ELSE {})
                 \cup (IF empty THEN {"Dataframe kosong"} ELSE {}),
              warnings |->
                 (IF missing THEN {"Ada missing values dalam data"} ELSE {})
                 \cup (IF odd_year
                       THEN {"Tahun di luar range yang wajar (1900-2100)"}
                       ELSE {})
                 \cup (IF negative THEN {"Ada nilai penjualan negatif"}
                       ELSE {}),
              frame |-> [columns |-> f.columns, rows |-> rows]]

----------------------------------------------------------------------------
(* prepare_features                                                        *)

\* As CopyFrame, working on the caller's frame itself.
SameFrame(f) == [frame |-> f, shared |-> TRUE]

\* df = df.copy(), line 109: the working frame is not the caller's.
CopyFrame(f) == [frame |-> f, shared |-> FALSE]

\* Line 125.  A null in Tahun or Bulan makes the column float, so that
\* astype(str) gives texts such as '2023.0' and 'nan' and pd.to_datetime
\* raises.
PeriodRaises(rows) ==
    \E n \in DOMAIN rows :
        rows[n].Tahun.kind # "num" \/ rows[n].Bulan.kind # "num"

\* A row with its periode; a quantity is a cell of length 0 (NaN) or 1.
WithPeriod(r) ==
    [Tahun |-> r.Tahun.v, Bulan |-> r.Bulan.v, Nama_Item |-> r.Nama_Item,
     total_jumlah |-> IF r.total_jumlah.kind = "num"
                      THEN <<r.total_jumlah.v>> ELSE <<>>,
     periode |-> Period(r.Tahun.v, r.Bulan.v)]

\* As SortValues, keeping the order of the raw table.
KeepOrder(rows) == rows

\* df.sort_values(['Nama Item', 'periode']), line 132
SortFrame(rows) == SortValues(rows)

\* Quantities of every row up to position n, whatever its product.
UngroupedQuantities(rows, n) ==
    [m \in 1..n |-> rows[m].total_jumlah]

\* groupby('Nama Item')['total_jumlah'] seen from row n: the quantities of
\* the rows of the same product up to and including row n, in table order.
\* A row with a null name belongs to no group.
GroupQuantities(rows, n) ==
    IF rows[n].Nama_Item = NullName THEN <<>>
    ELSE LET same == SelectSeq(SubSeq(rows, 1, n),
                               LAMBDA r : r.Nama_Item = rows[n].Nama_Item)
         IN  [m \in 1..Len(same) |-> same[m].total_jumlah]

\* shift(lag) within the group: missing on the first lag rows.
Shift(g, lag) == IF Len(g) > lag THEN g[Len(g) - lag] ELSE <<>>

\* As RollingMean, over all the rows of the group so far.
RollingMeanWholeGroup(g, window) ==
    LET w == SelectSeq(g, LAMBDA c : c # <<>>)
    IN  IF w = <<>> THEN <<>>
        ELSE <<(60 * SumSeq([n \in DOMAIN w |-> w[n][1]])) \div Len(w)>>

\* As RollingMean, with min_periods equal to the window.
RollingMeanFullWindow(g, window) ==
    LET w == SubSeq(g, Len(g) - window + 1, Len(g))
    IN  IF Len(g) < window \/ \E n \in DOMAIN w : w[n] = <<>> THEN <<>>
        ELSE <<(60 * SumSeq([n \in DOMAIN w |-> w[n][1]])) \div window>>

\* rolling(window, min_periods=1).mean() within the group, in 60ths: the
\* mean of the numbers in the window, missing if it holds none.
RollingMean(g, window) ==
    LET lo == Max(1, Len(g) - window + 1)
        w == SelectSeq(SubSeq(g, lo, Len(g)), LAMBDA c : c # <<>>)
    IN  IF w = <<>> THEN <<>>
        ELSE <<(60 * SumSeq([n \in DOMAIN w |-> w[n][1]])) \div Len(w)>>

\* diff() within the group: missing on the first row and next to a NaN.
Diff(g) ==
    IF Len(g) > 1 /\ g[Len(g)] # <<>> /\ g[Len(g) - 1] # <<>>
    THEN <<g[Len(g)][1] - g[Len(g) - 1][1]>> ELSE <<>>

\* Lines 133-159: the columns added to a row of the sorted frame.
FeatureRow(sorted, n) ==
    LET r == sorted[n]
        g == GroupQuantities(sorted, n)
    IN  [Tahun |-> r.Tahun, Bulan |-> r.Bulan, Nama_Item |-> r.Nama_Item,
         total_jumlah |-> r.total_jumlah,
         periode |-> r.periode,
         quarter |-> Quarter(r.Bulan),
         is_start_year |-> IsStartYear(r.Bulan),
         is_end_year |-> IsEndYear(r.Bulan),
         lag_1 |-> Shift(g, 1),
         lag_2 |-> Shift(g, 2),
         lag_3 |-> Shift(g, 3),
         ma_3 |-> RollingMean(g, 3),
         ma_6 |-> RollingMean(g, 6),
         diff_1 |-> Diff(g)]

\* fillna(0) on one cell.
FillNa(cell) == IF cell = <<>> THEN 0 ELSE cell[1]

\* fillna(0) on a row: every column that may hold a null.  na is the set
\* of the columns whose cell is null in the row: none after fillna.
FillNaRow(r) ==
    [na |-> {},
     Tahun |-> r.Tahun, Bulan |-> r.Bulan,
     Nama_Item |-> IF r.Nama_Item = NullName THEN "0" ELSE r.Nama_Item,
     total_jumlah |-> FillNa(r.total_jumlah),
     periode |-> r.periode,
     quarter |-> r.quarter,
     is_start_year |-> r.is_start_year,
     is_end_year |-> r.is_end_year,
     lag_1 |-> FillNa(r.lag_1),
     lag_2 |-> FillNa(r.lag_2),
     lag_3 |-> FillNa(r.lag_3),
     ma_3 |-> FillNa(r.ma_3),
     ma_6 |-> FillNa(r.ma_6),
     diff_1 |-> FillNa(r.diff_1)]

\* As FillNaTable, dropping the rows that hold a null (dropna).
DropNaTable(rows) ==
    LET full == SelectSeq(rows, LAMBDA r :
                    /\ r.Nama_Item # NullName /\ r.total_jumlah # <<>>
                    /\ r.lag_1 # <<>> /\ r.lag_2 # <<>> /\ r.lag_3 # <<>>
                    /\ r.ma_3 # <<>> /\ r.ma_6 # <<>> /\ r.diff_1 # <<>>)
    IN  [n \in DOMAIN full |-> FillNaRow(full[n])]

\* df = df.fillna(0), line 166
FillNaTable(rows) == [n \in DOMAIN rows |-> FillNaRow(rows[n])]

\* One call: the returned table, the messages shown, and the caller's frame
\* as the call leaves it (the working frame's changes if it is shared).
PrepareOutcome(f) ==
    LET work == CopyFrame(f)
        v == ValidateDataframe(work.frame)
        left(after) == IF work.shared THEN after ELSE f
    IN  IF ~v.is_valid
        THEN [table |-> NoneTable, messages |-> v.errors,
              caller |-> left(v.frame)]
        ELSE IF PeriodRaises(v.frame.rows)
        THEN [table |-> NoneTable,
              messages |-> v.warnings
                           \cup {"Error saat membuat kolom 'periode'"},
              caller |-> left(v.frame)]
        ELSE LET withp == [n \in DOMAIN v.frame.rows |->
                              WithPeriod(v.frame.rows[n])]
                 sorted == SortFrame(withp)
                 cells == [n \in DOMAIN sorted |-> FeatureRow(sorted, n)]
             IN  [table |-> Table(FillNaTable(cells)),
                  messages |-> v.warnings,
                  caller |-> left([columns |->
                                      v.frame.columns \cup {"periode"},
                                   rows |-> v.frame.rows])]

\* What prepare_features returns.
PrepareFeatures(f) == PrepareOutcome(f).table

----------------------------------------------------------------------------
(* Floats that may be NaN (std_pred and the confidence bounds)             *)

NaN == [nan |-> TRUE, v |-> 0]
Num(x) == [nan |-> FALSE, v |-> x]

\* a + c * b and a - c * b for an integer a and a float b.
AddScaled(a, c, b) == IF b.nan THEN NaN ELSE Num(a + c * b.v)
SubScaled(a, c, b) == IF b.nan THEN NaN ELSE Num(a - c * b.v)

\* Python max(x, 0): 0 only if 0 > x, and no comparison with NaN is true.
MaxZero(x) == IF ~x.nan /\ 0 > x.v THEN Num(0) ELSE x

\* x >= y on floats: false as soon as one side is NaN.
FGeq(x, y) == ~x.nan /\ ~y.nan /\ x.v >= y.v

----------------------------------------------------------------------------
(* The model handle.  predict is a deterministic function of the feature   *)
(* vector (two regressors are tried); raising is decided by the            *)
(* environment: per (product, step) of the rollout, or for the batch call  *)
(* of the residual estimate.                                               *)

NoneModel == [isnull |-> TRUE, kind |-> "none", fail |-> {},
              batch_fail |-> FALSE]

ModelKinds == {"trend", "season"}

Predict(kind, fv) ==
    IF kind = "trend" THEN fv.lag_1 + fv.diff_1 - 1
    ELSE fv.lag_3 - fv.lag_2 + fv.is_start_year + (fv.ma_3 \div 60)

FeatureCols(r) ==
    [Tahun |-> r.Tahun, Bulan |-> r.Bulan, quarter |-> r.quarter,
     is_start_year |-> r.is_start_year, is_end_year |-> r.is_end_year,
     lag_1 |-> r.lag_1, lag_2 |-> r.lag_2, lag_3 |-> r.lag_3,
     ma_3 |-> r.ma_3, ma_6 |-> r.ma_6, diff_1 |-> r.diff_1]

----------------------------------------------------------------------------
(* predict_future: seeds and the residual estimate                         *)

\* df.groupby('Nama Item').tail(1): the last row of each product, in the
\* order of the table.
TailPerItem(rows) ==
    LET last(n) == \A m \in (n + 1)..Len(rows) :
                       rows[m].Nama_Item # rows[n].Nama_Item
        F[n \in 0..Len(rows)] ==
            IF n = 0 THEN <<>>
            ELSE IF last(n) THEN Append(F[n - 1], rows[n]) ELSE F[n - 1]
    IN  F[Len(rows)]

ISqrt(x) == CHOOSE r \in 0..x : r * r <= x /\ x < (r + 1) * (r + 1)

\* Series.std() (ddof = 1) in 10ths: NaN for one value,
\* sqrt((n * sum r^2 - (sum r)^2) / (n * (n - 1))) otherwise.
SampleStd(res) ==
    LET n == Len(res)
        sq == [m \in DOMAIN res |-> res[m] * res[m]]
        num == n * SumSeq(sq) - SumSeq(res) * SumSeq(res)
    IN  IF n < 2 THEN NaN
        ELSE Num(ISqrt((100 * num) \div (n * (n - 1))))

\* df.dropna(): the rows without a null cell.
DropNa(rows) == SelectSeq(rows, LAMBDA r : r.na = {})

\* As ResidualStd, over every row and whatever the model does.
ResidualStdOfAllRows(rows, m) ==
    IF rows = <<>> THEN Num(0)
    ELSE SampleStd([n \in DOMAIN rows |->
             rows[n].total_jumlah - Predict(m.kind, FeatureCols(rows[n]))])

\* Lines 252-267: std of the residuals over the rows without missing
\* values; 0 if there is none or if the model raises.
ResidualStd(rows, m) ==
    LET clean_df == DropNa(rows)
    IN  IF clean_df = <<>> THEN Num(0)
        ELSE IF m.batch_fail THEN Num(0)
        ELSE SampleStd([n \in DOMAIN clean_df |->
                 clean_df[n].total_jumlah
                 - Predict(m.kind, FeatureCols(clean_df[n]))])

----------------------------------------------------------------------------
(* predict_future: one iteration of the rollout                            *)

\* As LookupPred, without the condition on the product.
LookupPredAnyItem(preds, item, period) ==
    SelectSeq(preds, LAMBDA p : p.periode = period)

\* prev_pred_df[(Nama Item == item) & (periode == period)]
LookupPred(preds, item, period) ==
    SelectSeq(preds, LAMBDA p : p.Nama_Item = item /\ p.periode = period)

\* As StepLags, with lag_2 read at the offset of lag_1.
StepLagsSameOffset(preds, row, step) ==
    LET next_period == AddMonths(row.periode, step)
        seed == [raised |-> FALSE, lag_1 |-> row.total_jumlah,
                 lag_2 |-> row.lag_1, lag_3 |-> row.lag_2]
        prev1 == LookupPred(preds, row.Nama_Item, AddMonths(next_period, -1))
        prev3 == LookupPred(preds, row.Nama_Item, AddMonths(next_period, -3))
    IN  IF step = 1 THEN seed
        ELSE IF preds = <<>>
             THEN [raised |-> TRUE, lag_1 |-> 0, lag_2 |-> 0, lag_3 |-> 0]
        ELSE IF prev1 # <<>>
             THEN [raised |-> FALSE,
                   lag_1 |-> prev1[1].prediksi_jumlah,
                   lag_2 |-> prev1[1].prediksi_jumlah,
                   lag_3 |-> IF prev3 # <<>>
                             THEN prev3[1].prediksi_jumlah
                             ELSE row.lag_2]
        ELSE seed

\* As StepLags, with lag_1 falling back to the seed row's lag_1.
StepLagsFallbackLag1(preds, row, step) ==
    LET next_period == AddMonths(row.periode, step)
        seed == [raised |-> FALSE, lag_1 |-> row.total_jumlah,
                 lag_2 |-> row.lag_1, lag_3 |-> row.lag_2]
        prev1 == LookupPred(preds, row.Nama_Item, AddMonths(next_period, -1))
        prev2 == LookupPred(preds, row.Nama_Item, AddMonths(next_period, -2))
        prev3 == LookupPred(preds, row.Nama_Item, AddMonths(next_period, -3))
    IN  IF step = 1 THEN seed
        ELSE IF preds = <<>>
             THEN [raised |-> TRUE, lag_1 |-> 0, lag_2 |-> 0, lag_3 |-> 0]
        ELSE IF prev1 # <<>>
             THEN [raised |-> FALSE,
                   lag_1 |-> prev1[1].prediksi_jumlah,
                   lag_2 |-> IF prev2 # <<>>
                             THEN prev2[1].prediksi_jumlah
                             ELSE row.lag_1,
                   lag_3 |-> IF prev3 # <<>>
                             THEN prev3[1].prediksi_jumlah
                             ELSE row.lag_2]
        ELSE [raised |-> FALSE, lag_1 |-> row.lag_1,
              lag_2 |-> row.lag_1, lag_3 |-> row.lag_2]

\* As StepLags, with lag_2 and lag_3 looked up whether or not the
\* prediction of the previous step exists.
StepLagsIndependent(preds, row, step) ==
    LET next_period == AddMonths(row.periode, step)
        seed == [raised |-> FALSE, lag_1 |-> row.total_jumlah,
                 lag_2 |-> row.lag_1, lag_3 |-> row.lag_2]
        prev1 == LookupPred(preds, row.Nama_Item, AddMonths(next_period, -1))
        prev2 == LookupPred(preds, row.Nama_Item, AddMonths(next_period, -2))
        prev3 == LookupPred(preds, row.Nama_Item, AddMonths(next_period, -3))
    IN  IF step = 1 THEN seed
        ELSE IF preds = <<>>
             THEN [raised |-> TRUE, lag_1 |-> 0, lag_2 |-> 0, lag_3 |-> 0]
        ELSE [raised |-> FALSE,
              lag_1 |-> IF prev1 # <<>>
                        THEN prev1[1].prediksi_jumlah
                        ELSE row.total_jumlah,
              lag_2 |-> IF prev2 # <<>>
                        THEN prev2[1].prediksi_jumlah
                        ELSE row.lag_1,
              lag_3 |-> IF prev3 # <<>>
                        THEN prev3[1].prediksi_jumlah
                        ELSE row.lag_2]

\* Lines 276-311.  pd.DataFrame([]) has no columns, so the lookup raises
\* KeyError when no prediction has been recorded yet.
StepLags(preds, row, step) ==
    LET next_period == AddMonths(row.periode, step)
        seed == [raised |-> FALSE, lag_1 |-> row.total_jumlah,
                 lag_2 |-> row.lag_1, lag_3 |-> row.lag_2]
        prev1 == LookupPred(preds, row.Nama_Item, AddMonths(next_period, -1))
        prev2 == LookupPred(preds, row.Nama_Item, AddMonths(next_period, -2))
        prev3 == LookupPred(preds, row.Nama_Item, AddMonths(next_period, -3))
    IN  IF step = 1 THEN seed
        ELSE IF preds = <<>>
             THEN [raised |-> TRUE, lag_1 |-> 0, lag_2 |-> 0, lag_3 |-> 0]
        ELSE IF prev1 # <<>>
             THEN [raised |-> FALSE,
                   lag_1 |-> prev1[1].prediksi_jumlah,
                   lag_2 |-> IF step >= 2
                             THEN (IF prev2 # <<>>
                                   THEN prev2[1].prediksi_jumlah
                                   ELSE row.lag_1)
                             ELSE row.lag_1,
                   lag_3 |-> IF step >= 3
                             THEN (IF prev3 # <<>>
                                   THEN prev3[1].prediksi_jumlah
                                   ELSE row.lag_2)
                             ELSE row.lag_2]
        ELSE seed

\* As StepFeatures, with ma_6 following the lags of the step.
StepFeaturesMovingMa6(row, step, lags) ==
    LET next_period == AddMonths(row.periode, step)
        bulan == MonthOf(next_period)
    IN  [Tahun |-> YearOf(next_period), Bulan |-> bulan,
         quarter |-> Quarter(bulan),
         is_start_year |-> IsStartYear(bulan),
         is_end_year |-> IsEndYear(bulan),
         lag_1 |-> lags.lag_1, lag_2 |-> lags.lag_2, lag_3 |-> lags.lag_3,
         ma_3 |-> 20 * (lags.lag_1 + lags.lag_2 + lags.lag_3),
         ma_6 |-> 20 * (lags.lag_1 + lags.lag_2 + lags.lag_3),
         diff_1 |-> lags.lag_1 - lags.lag_2]

\* As StepFeatures, with the date parts, ma_3 and diff_1 of the seed row.
StepFeaturesOfSeed(row, step, lags) ==
    [Tahun |-> row.Tahun, Bulan |-> row.Bulan,
     quarter |-> row.quarter,
     is_start_year |-> row.is_start_year,
     is_end_year |-> row.is_end_year,
     lag_1 |-> lags.lag_1, lag_2 |-> lags.lag_2, lag_3 |-> lags.lag_3,
     ma_3 |-> row.ma_3,
     ma_6 |-> IF "ma_6" \in row.na THEN 0 ELSE row.ma_6,
     diff_1 |-> row.diff_1]

\* features_input, lines 314-326 (ma_3 in 60ths: 60 * (sum / 3)); ma_6 is
\* the seed row's, 0 if that is null.
StepFeatures(row, step, lags) ==
    LET next_period == AddMonths(row.periode, step)
        bulan == MonthOf(next_period)
    IN  [Tahun |-> YearOf(next_period), Bulan |-> bulan,
         quarter |-> Quarter(bulan),
         is_start_year |-> IsStartYear(bulan),
         is_end_year |-> IsEndYear(bulan),
         lag_1 |-> lags.lag_1, lag_2 |-> lags.lag_2, lag_3 |-> lags.lag_3,
         ma_3 |-> 20 * (lags.lag_1 + lags.lag_2 + lags.lag_3),
         ma_6 |-> IF "ma_6" \in row.na THEN 0 ELSE row.ma_6,
         diff_1 |-> lags.lag_1 - lags.lag_2]

\* The model's output as it is.
NoClamp(x) == x

\* pred = max(pred, 0)
ClampPred(x) == Max(x, 0)

\* ci_lower = max(pred - 1.96 * std_pred, 0), in 1000ths.
CILower(pred, std) == MaxZero(SubScaled(1000 * pred, 196, std))

CIUpperOneStd(pred, std) == AddScaled(1000 * pred, 100, std)

\* ci_upper = pred + 1.96 * std_pred, in 1000ths.
CIUpper(pred, std) == AddScaled(1000 * pred, 196, std)

\* As ForecastRow, dated the month after the seed row at every step.
ForecastRowNextMonth(row, step, pred, std) ==
    [Nama_Item |-> row.Nama_Item,
     periode |-> AddMonths(row.periode, 1),
     prediksi_jumlah |-> pred,
     CI_lower |-> MaxZero(SubScaled(1000 * pred, 196, std)),
     CI_upper |-> AddScaled(1000 * pred, 196, std)]

\* As ForecastRow, with a band that widens with the step.
ForecastRowWidening(row, step, pred, std) ==
    [Nama_Item |-> row.Nama_Item,
     periode |-> AddMonths(row.periode, step),
     prediksi_jumlah |-> pred,
     CI_lower |-> MaxZero(SubScaled(1000 * pred, 196 * step, std)),
     CI_upper |-> AddScaled(1000 * pred, 196 * step, std)]

\* Lines 337-343: the row appended to future_preds.
ForecastRow(row, step, pred, std) ==
    [Nama_Item |-> row.Nama_Item,
     periode |-> AddMonths(row.periode, step),
     prediksi_jumlah |-> pred,
     CI_lower |-> CILower(pred, std),
     CI_upper |-> CIUpper(pred, std)]

\* Outcome of the body of the inner loop for one seed row and one step:
\* what is appended to future_preds and what the model was given.
StepOutcome(preds, row, step, m, std) ==
    LET lags == StepLags(preds, row, step)
        fv == StepFeatures(row, step, lags)
        pred == ClampPred(Predict(m.kind, fv))
    IN  IF lags.raised
        THEN [outcome |-> "lookup_raised", fv |-> <<>>, new |-> <<>>]
        ELSE IF <<row.Nama_Item, step>> \in m.fail
        THEN [outcome |-> "model_raised", fv |-> <<fv>>, new |-> <<>>]
        ELSE [outcome |-> "ok", fv |-> <<fv>>,
              new |-> <<ForecastRow(row, step, pred, std)>>]

\* future_df['confidence_level'] = '95%'
WithConfidenceLevel(rows) ==
    [n \in DOMAIN rows |->
        [Nama_Item |-> rows[n].Nama_Item, periode |-> rows[n].periode,
         prediksi_jumlah |-> rows[n].prediksi_jumlah,
         CI_lower |-> rows[n].CI_lower, CI_upper |-> rows[n].CI_upper,
         confidence_level |-> "95%"]]

UnsortedForecast(rows) == rows

\* future_df.sort_values(by=['Nama Item', 'periode'])
SortForecast(rows) == SortValues(rows)

MonthsNoUpperLimit(h) == h <= 0

\* if months <= 0 or months > 12
BadMonths(h) == h <= 0 \/ h > 12

EmptyTableResult(preds) == Table(SortForecast(WithConfidenceLevel(preds)))

\* Lines 350-359: the sorted table, or None when nothing was produced.
FinalResult(preds) ==
    IF preds # <<>>
    THEN Table(SortForecast(WithConfidenceLevel(preds)))
    ELSE NoneTable

StalePredictionSet == future_preds

\* future_preds = []
NewPredictionSet == <<>>

----------------------------------------------------------------------------
(* Inputs                                                                  *)

\* The monthly history of one product: consecutive months ending at last.
History(item, last, qs) ==
    [n \in 1..Len(qs) |->
        RawRow(YearOf(last - Len(qs) + n), MonthOf(last - Len(qs) + n),
               item, qs[n])]

\* Rows of complete records given to prepare_features on its own: two
\* periods on both sides of a year change, and a month outside 1..12.
PlainRows ==
    {RawRow(ym[1], ym[2], "A", q) :
        ym \in {<<2023, 12>>, <<2024, 1>>}, q \in Qtys}
    \cup {RawRow(2023, 12, "B", 3), RawRow(2024, 1, "B", 3),
          RawRow(2024, 13, "A", 1)}

\* Rows with one cell out of the ordinary: a year outside 1900..2100, a
\* negative quantity, a null or a text in each kind of column.
OddRows ==
    {RawRow(1800, 12, "A", 1), RawRow(2023, 12, "A", -2),
     RawRow(2023, 12, NullName, 1),
     [RawRow(2023, 12, "A", 1) EXCEPT !.total_jumlah = NullCell],
     [RawRow(2023, 12, "A", 1) EXCEPT !.total_jumlah = TextCell],
     [RawRow(2023, 12, "A", 1) EXCEPT !.Tahun = NullCell],
     [RawRow(2023, 12, "A", 1) EXCEPT !.Bulan = NullCell]}

BuildRawRows == PlainRows \cup OddRows

\* The rows of a frame that lacks some columns: their cells are not there.
Project(r, cols) ==
    [Tahun |-> IF "Tahun" \in cols THEN r.Tahun ELSE NullCell,
     Bulan |-> IF "Bulan" \in cols THEN r.Bulan ELSE NullCell,
     Nama_Item |-> IF "Nama_Item" \in cols THEN r.Nama_Item ELSE NullName,
     total_jumlah |-> IF "total_jumlah" \in cols THEN r.total_jumlah
                      ELSE NullCell]

\* Frames without one or more of the required columns.
NarrowFrames ==
    {[columns |-> cols,
      rows |-> [n \in DOMAIN rows |-> Project(rows[n], cols)]] :
        cols \in (SUBSET RequiredCols) \ {RequiredCols},
        rows \in SeqsUpTo({RawRow(2023, 12, "A", 1),
                           RawRow(2024, 13, "A", 1)}, 1)}

Orders(n) ==
    {p \in [1..n -> 1..n] : \A a, b \in 1..n : a # b => p[a] # p[b]}

\* Monthly histories of one product ending in February 2024, their rows in
\* every order.
ShuffledHistories ==
    {[n \in 1..MaxHistory |-> h[p[n]]] :
        h \in {History("A", Period(2024, 2), qs) :
                  qs \in [1..MaxHistory -> Qtys]},
        p \in Orders(MaxHistory)}

\* Monthly histories of one product longer than the window of ma_6, in
\* ascending order, in descending order and with the odd positions first.
LongHistories ==
    LET oddfirst(n) == IF 2 * n - 1 <= MaxLong THEN 2 * n - 1
                       ELSE 2 * (n - ((MaxLong + 1) \div 2))
    IN  UNION {{h, [n \in 1..MaxLong |-> h[MaxLong + 1 - n]],
                [n \in 1..MaxLong |-> h[oddfirst(n)]]} :
                 h \in {History("B", Period(2024, 3), qs) :
                           qs \in [1..MaxLong -> Qtys]}}

\* The frames given to prepare_features on its own.
BuildRaws ==
    {Frame(rows) : rows \in SeqsUpTo(BuildRawRows, MaxBuildRows)
                           \cup ShuffledHistories \cup LongHistories}
    \cup NarrowFrames

\* Raw tables behind the feature tables given to predict_future: product A
\* sold up to December 2023 and product B up to November 2023.
ForecastRaws ==
    {History("A", Period(2023, 12), qa) \o History("B", Period(2023, 11), qb) :
        <<qa, qb>> \in {p \in SeqsUpTo(Qtys, MaxRows) \X SeqsUpTo(Qtys, MaxRows) :
                          Len(p[1]) + Len(p[2]) <= MaxRows}}

\* A feature table whose column ma_6 holds nulls only.
WithoutMa6(t) ==
    Table([n \in DOMAIN t.rows |->
              [t.rows[n] EXCEPT !.ma_6 = 0, !.na = {"ma_6"}]])

\* A feature table with its rows in the opposite order.
Reversed(t) ==
    Table([n \in DOMAIN t.rows |-> t.rows[Len(t.rows) + 1 - n]])

\* What prepare_features returns on them (None for the empty table), a
\* feature table without rows, the tables of one or two rows with a column
\* ma_6 that was not filled, and the tables of two months of one product
\* with the later month first.
FeatureTables ==
    LET built == {PrepareFeatures(Frame(r)) : r \in ForecastRaws}
    IN  built \cup {Table(<<>>)}
        \cup {WithoutMa6(t) : t \in {b \in built : Len(b.rows) \in 1..2}}
        \cup {Reversed(t) : t \in {b \in built :
                  /\ Len(b.rows) = 2
                  /\ b.rows[1].Nama_Item = b.rows[2].Nama_Item}}

Horizons == {0, 13} \cup (1..MaxMonths)

ItemsOf(d) == {d.rows[n].Nama_Item : n \in DOMAIN d.rows}

FailSets(d, h) ==
    LET pairs == ItemsOf(d) \X (IF h \in 1..MaxMonths THEN 1..h ELSE {})
    IN  {S \in SUBSET pairs : Cardinality(S) <= MaxFails \/ S = pairs}

Models(d, h) ==
    {NoneModel} \cup
    {[isnull |-> FALSE, kind |-> kd, fail |-> f, batch_fail |-> FALSE] :
        kd \in ModelKinds, f \in FailSets(d, h)} \cup
    {[isnull |-> FALSE, kind |-> kd, fail |-> {}, batch_fail |-> TRUE] :
        kd \in ModelKinds}

\* st.session_state of a new session: no key is set.  has_uploaded_df is
\* "uploaded_df" in st.session_state; future_of remembers the uploaded_df
\* that was current when future_df was stored, and page3 what the stock
\* page last displayed and the uploaded_df of that moment.
NoPage3 == [future_df |-> NoneTable, of |-> NoneTable, data |-> NoneTable]

NoSession == [has_uploaded_df |-> FALSE, uploaded_df |-> NoneTable,
              future_df |-> NoneTable, future_of |-> NoneTable,
              page3 |-> NoPage3]

NoFirst == [set |-> FALSE, df |-> NoneTable, model |-> NoneModel,
            months |-> 0, result |-> NoneTable]

----------------------------------------------------------------------------
(* predict_future as a state machine: Enter (lines 240-269), one Attempt   *)
(* per iteration of the nested loops (271-348), Finish (350-359).          *)

Init ==
    /\ raw = <<>>
    /\ feature_table = NoneTable
    /\ df \in FeatureTables
    /\ months \in Horizons
    /\ model \in Models(df, months)
    /\ pc = "call"
    /\ last_data = <<>>
    /\ std_pred = Num(0)
    /\ future_preds = <<>>
    /\ i = 0
    /\ k = 0
    /\ result = NoneTable
    /\ messages = {}
    /\ calls = <<>>
    /\ residual_invoked = FALSE
    /\ ncalls = 1
    /\ first = NoFirst
    /\ session_state = NoSession

Enter ==
    /\ pc = "call"
    /\ IF df.isnull \/ model.isnull
       THEN /\ messages' = messages \cup {"Data atau model tidak tersedia"}
            /\ result' = NoneTable
            /\ pc' = "done"
            /\ UNCHANGED <<last_data, std_pred, future_preds, i, k,
                           residual_invoked>>
       ELSE IF BadMonths(months)
       THEN /\ messages' = messages \cup {"Jumlah bulan harus antara 1-12"}
            /\ result' = NoneTable
            /\ pc' = "done"
            /\ UNCHANGED <<last_data, std_pred, future_preds, i, k,
                           residual_invoked>>
       ELSE /\ last_data' = TailPerItem(df.rows)
            /\ std_pred' = ResidualStd(df.rows, model)
            /\ residual_invoked' = (DropNa(df.rows) # <<>>)
            /\ future_preds' = NewPredictionSet
            /\ i' = 1
            /\ k' = 1
            /\ pc' = "rollout"
            /\ UNCHANGED <<result, messages>>
    /\ UNCHANGED <<raw, feature_table, df, model, months, calls, ncalls,
                   first, session_state>>

\* As LoopDone, leaving the loops at the first failed attempt.
LoopDoneAtFailure ==
    i > months \/ last_data = <<>> \/ "Error prediksi" \in messages

\* range(1, months + 1) and last_data.iterrows() are exhausted.
LoopDone == i > months \/ last_data = <<>>

Attempt ==
    /\ pc = "rollout"
    /\ ~LoopDone
    /\ LET row == last_data[k]
           out == StepOutcome(future_preds, row, i, model, std_pred)
       IN  /\ future_preds' = future_preds \o out.new
           /\ messages' = IF out.outcome = "ok" THEN messages
                          ELSE messages \cup {"Error prediksi"}
           /\ calls' = Append(calls, [item |-> row.Nama_Item, step |-> i,
                                      outcome |-> out.outcome,
                                      fv |-> out.fv, new |-> out.new])
    /\ IF k < Len(last_data)
       THEN k' = k + 1 /\ i' = i
       ELSE k' = 1 /\ i' = i + 1
    /\ UNCHANGED <<raw, feature_table, df, model, months, pc, last_data,
                   std_pred, result, residual_invoked, ncalls, first,
                   session_state>>

Finish ==
    /\ pc = "rollout"
    /\ LoopDone
    /\ result' = FinalResult(future_preds)
    /\ messages' = IF future_preds # <<>> THEN messages
                   ELSE messages \cup
                            {"Tidak ada prediksi yang berhasil dibuat"}
    /\ pc' = "done"
    /\ UNCHANGED <<raw, feature_table, df, model, months, last_data,
                   std_pred, future_preds, i, k, calls, residual_invoked,
                   ncalls, first, session_state>>

Next == Enter \/ Attempt \/ Finish

Spec == Init /\ [][Next]_vars

\* The position of the call: where it is, the step and the seed row.
Position == <<pc, i, k>>

\* A step of a call that has not returned moves its position.
Advance ==
    /\ pc # "done"
    /\ pc' \in {"call", "rollout", "done"}
    /\ i' \in 0..(i + 1)
    /\ k' \in 0..(k + 1)

\* The call runs on without waiting for anything: as long as it has not
\* returned, its position moves.
SpecFair == Init /\ [][Next]_vars /\ WF_Position(Advance)

----------------------------------------------------------------------------
(* prepare_features on its own                                             *)

InitBuild ==
    /\ raw \in BuildRaws
    /\ feature_table = NoneTable
    /\ df = NoneTable
    /\ months = 0
    /\ model = NoneModel
    /\ pc = "raw"
    /\ last_data = <<>>
    /\ std_pred = Num(0)
    /\ future_preds = <<>>
    /\ i = 0
    /\ k = 0
    /\ result = NoneTable
    /\ messages = {}
    /\ calls = <<>>
    /\ residual_invoked = FALSE
    /\ ncalls = 0
    /\ first = NoFirst
    /\ session_state = NoSession

Build ==
    /\ pc = "raw"
    /\ feature_table' = PrepareOutcome(raw).table
    /\ messages' = messages \cup PrepareOutcome(raw).messages
    /\ raw' = PrepareOutcome(raw).caller
    /\ pc' = "built"
    /\ UNCHANGED <<df, model, months, last_data, std_pred,
                   future_preds, i, k, result, calls, residual_invoked,
                   ncalls, first, session_state>>

NextBuild == Build

SpecBuild == InitBuild /\ [][NextBuild]_vars

----------------------------------------------------------------------------
(* Repeated calls of predict_future in one process.  The locals of the     *)
(* previous call stay where they are until the code assigns them again;    *)
(* first remembers the arguments and the result of the first call.         *)

RepeatTables ==
    {t \in {PrepareFeatures(Frame(r)) : r \in ForecastRaws} :
        /\ Len(t.rows) = 2
        /\ t.rows[1].total_jumlah = 1 /\ t.rows[2].total_jumlah = 3}

RepeatHorizons == {1, 2}

RepeatModels(d, h) == {m \in Models(d, h) : ~m.isnull /\ ~m.batch_fail}

InitRepeat ==
    /\ raw = <<>>
    /\ feature_table = NoneTable
    /\ df \in RepeatTables
    /\ months \in RepeatHorizons
    /\ model \in RepeatModels(df, months)
    /\ pc = "call"
    /\ last_data = <<>>
    /\ std_pred = Num(0)
    /\ future_preds = <<>>
    /\ i = 0
    /\ k = 0
    /\ result = NoneTable
    /\ messages = {}
    /\ calls = <<>>
    /\ residual_invoked = FALSE
    /\ ncalls = 1
    /\ first = NoFirst
    /\ session_state = NoSession

\* The caller takes the returned table and calls again.
Recall ==
    /\ pc = "done"
    /\ ncalls < MaxCalls
    /\ \E d \in RepeatTables, h \in RepeatHorizons :
         \E m \in RepeatModels(d, h) :
            /\ df' = d
            /\ months' = h
            /\ model' = m
    /\ first' = IF first.set THEN first
                ELSE [set |-> TRUE, df |-> df, model |-> model,
                      months |-> months, result |-> result]
    /\ ncalls' = ncalls + 1
    /\ pc' = "call"
    /\ calls' = <<>>
    /\ messages' = {}
    /\ residual_invoked' = FALSE
    /\ UNCHANGED <<raw, feature_table, last_data, std_pred, future_preds,
                   i, k, result, session_state>>

NextRepeat == Enter \/ Attempt \/ Finish \/ Recall

SpecRepeat == InitRepeat /\ [][NextRepeat]_vars

----------------------------------------------------------------------------
(* One browser session over the pages.  A run of a page script is one      *)
(* action, except that the prediction page's call of predict_future runs   *)
(* as Enter, Attempt and Finish between VisitPrediction and Store.         *)

\* data.csv of the deployment.
DataCsv == Frame(History("B", Period(2023, 11), <<1, 3>>))

\* The files offered to the uploader: two data sets, a file without the
\* column Bulan, and a file with a month 13.
UploadFiles ==
    {Frame(History("A", Period(2023, 12), <<3, 1>>)),
     Frame(History("A", Period(2023, 12), <<1>>)
           \o History("B", Period(2023, 11), <<3>>)),
     [columns |-> RequiredCols \ {"Bulan"},
      rows |-> <<Project(RawRow(2023, 12, "A", 1),
                         RequiredCols \ {"Bulan"})>>],
     Frame(<<RawRow(2024, 13, "A", 1)>>)}

\* validate_dataframe, then prepare_features on the frame it coerced
\* (load_data, lines 189-203; Dashboard.py, lines 34-42).
ValidateAndPrepare(f) ==
    LET validation == ValidateDataframe(f)
    IN  IF validation.is_valid THEN PrepareFeatures(validation.frame)
        ELSE NoneTable

\* load_data()
LoadData == ValidateAndPrepare(DataCsv)

\* What load_model() returns in a session: nothing, or a model that fails
\* on some attempts, on all of them, or on the whole batch.
SessionModels ==
    LET pairs == {"A", "B"} \X (1..3)
    IN  {NoneModel} \cup
        {[isnull |-> FALSE, kind |-> kd, fail |-> f, batch_fail |-> FALSE] :
            kd \in ModelKinds,
            f \in {S \in SUBSET pairs :
                      Cardinality(S) <= MaxFails \/ S = pairs}} \cup
        {[isnull |-> FALSE, kind |-> kd, fail |-> {}, batch_fail |-> TRUE] :
            kd \in ModelKinds}

InitSession ==
    /\ raw = <<>>
    /\ feature_table = NoneTable
    /\ df = NoneTable
    /\ months = 0
    /\ model \in SessionModels
    /\ pc = "idle"
    /\ last_data = <<>>
    /\ std_pred = Num(0)
    /\ future_preds = <<>>
    /\ i = 0
    /\ k = 0
    /\ result = NoneTable
    /\ messages = {}
    /\ calls = <<>>
    /\ residual_invoked = FALSE
    /\ ncalls = 0
    /\ first = NoFirst
    /\ session_state = NoSession

\* Dashboard.py, lines 116-119 and pages/2_Prediksi_Penjualan.py, lines
\* 41-44: the default data set, if the session has none yet.
WithDefaultData(ss) ==
    IF ss.has_uploaded_df THEN ss
    ELSE [ss EXCEPT !.has_uploaded_df = TRUE, !.uploaded_df = LoadData]

\* Dashboard.py, lines 45-48.
StoreUpload(ss, processed_df) ==
    [ss EXCEPT !.has_uploaded_df = TRUE, !.uploaded_df = processed_df]

\* A run of Dashboard.py with a file in the uploader (lines 27-83), then
\* the default data if the session has none (116-119).
Upload ==
    /\ pc = "idle"
    /\ \E f \in UploadFiles :
          LET processed_df == ValidateAndPrepare(f)
          IN  session_state' =
                  WithDefaultData(IF processed_df.isnull THEN session_state
                                  ELSE StoreUpload(session_state,
                                                   processed_df))
    /\ UNCHANGED <<raw, feature_table, df, model, months, pc, last_data,
                   std_pred, future_preds, i, k, result, messages, calls,
                   residual_invoked, ncalls, first>>

\* A run of pages/2_Prediksi_Penjualan.py up to its call of predict_future
\* (lines 31-127): it stops before the call without a model, without data,
\* without a complete row, or when the prediction of the history raises.
VisitPrediction ==
    /\ pc = "idle"
    /\ IF model.isnull
       THEN UNCHANGED <<session_state, df, months, pc>>
       ELSE LET ss == WithDefaultData(session_state)
                df_clean == DropNa(ss.uploaded_df.rows)
            IN  /\ session_state' = ss
                /\ IF ss.uploaded_df.isnull \/ df_clean = <<>>
                      \/ model.batch_fail
                   THEN UNCHANGED <<df, months, pc>>
                   ELSE /\ df' = Table(df_clean)
                        /\ months' = 3
                        /\ pc' = "call"
    /\ UNCHANGED <<raw, feature_table, model, last_data, std_pred,
                   future_preds, i, k, result, messages, calls,
                   residual_invoked, ncalls, first>>

\* pages/2_Prediksi_Penjualan.py, lines 129-130.
StoreFuture(ss, future) ==
    IF ~future.isnull
    THEN [ss EXCEPT !.future_df = future, !.future_of = ss.uploaded_df]
    ELSE ss

\* The rest of the run of the prediction page after predict_future has
\* returned; the locals of the run are gone with it.
Store ==
    /\ pc = "done"
    /\ session_state' = StoreFuture(session_state, result)
    /\ pc' = "idle"
    /\ df' = NoneTable
    /\ months' = 0
    /\ last_data' = <<>>
    /\ std_pred' = Num(0)
    /\ future_preds' = <<>>
    /\ i' = 0
    /\ k' = 0
    /\ result' = NoneTable
    /\ messages' = {}
    /\ calls' = <<>>
    /\ residual_invoked' = FALSE
    /\ UNCHANGED <<raw, feature_table, model, ncalls, first>>

\* A run of pages/3_Rekomendasi_Stok.py (lines 22-23): it displays the
\* session's future_df if there is one.
VisitStock ==
    /\ pc = "idle"
    /\ session_state' =
          [session_state EXCEPT
              !.page3 = [future_df |-> session_state.future_df,
                         of |-> session_state.future_of,
                         data |-> session_state.uploaded_df]]
    /\ UNCHANGED <<raw, feature_table, df, model, months, pc, last_data,
                   std_pred, future_preds, i, k, result, messages, calls,
                   residual_invoked, ncalls, first>>

NextSession ==
    Upload \/ VisitPrediction \/ Enter \/ Attempt \/ Finish \/ Store
    \/ VisitStock

SpecSession == InitSession /\ [][NextSession]_vars

----------------------------------------------------------------------------
(* The whole rollout (lines 271-348) as a function of its inputs: the      *)
(* attempts in step-major order, each applied to the predictions so far.   *)

RolloutLog(seeds, m, std, h) ==
    LET n == Len(seeds)
        F[t \in 0..(n * h)] ==
            IF t = 0 THEN [preds |-> <<>>, calls |-> <<>>]
            ELSE LET prev == F[t - 1]
                     st == ((t - 1) \div n) + 1
                     row == seeds[((t - 1) % n) + 1]
                     out == StepOutcome(prev.preds, row, st, m, std)
                 IN  [preds |-> prev.preds \o out.new,
                      calls |-> Append(prev.calls,
                                   [item |-> row.Nama_Item, step |-> st,
                                    outcome |-> out.outcome,
                                    fv |-> out.fv, new |-> out.new])]
    IN  F[n * h]

----------------------------------------------------------------------------
(* Properties                                                              *)

Accepted == ~df.isnull /\ ~model.isnull /\ months >= 1 /\ months <= 12

Returned == pc = "done"

\* The (product, period) pairs of a sequence of forecast rows.
Keys(rows) == {<<rows[n].Nama_Item, rows[n].periode>> : n \in DOMAIN rows}

\* What the model was given, and what was recorded, at one attempt.
Given(c) == [step |-> c.step, fv |-> c.fv,
             pred |-> IF c.new = <<>> THEN <<>>
                      ELSE <<c.new[1].prediksi_jumlah>>]

CallsOf(log, item) == SelectSeq(log, LAMBDA c : c.item = item)

\* The prediction recorded for a product at a step of the current run.
Recorded(item, step) ==
    LET c == CHOOSE c \in Range(calls) :
                 c.item = item /\ c.step = step /\ c.new # <<>>
    IN  c.new[1].prediksi_jumlah

SeedOf(item) ==
    CHOOSE r \in Range(last_data) : r.Nama_Item = item

\* C1 (as claimed): when the model raises for exactly one (product, step)
\* out of at least two (and nowhere else), the returned table holds a row for every other
\* (product, step) and omits only the failed one.
C1_PartialFailureSurvives ==
    (/\ Returned /\ Accepted
     /\ Cardinality(model.fail) = 1 /\ ~model.batch_fail
     /\ Len(last_data) * months >= 2)
    => /\ ~result.isnull
       /\ Keys(result.rows) =
            {<<last_data[n].Nama_Item, AddMonths(last_data[n].periode, st)>> :
                 <<n, st>> \in {p \in (DOMAIN last_data) \X (1..months) :
                                 <<last_data[p[1]].Nama_Item, p[2]>>
                                     \notin model.fail}}

\* C2 (as claimed): with a numeric std_pred, every returned row has
\* CI_upper - CI_lower = 2 * 1.96 * std_pred.
C2_WidthAlwaysTwoZStd ==
    (Returned /\ ~result.isnull /\ ~std_pred.nan)
    => \A n \in DOMAIN result.rows :
          result.rows[n].CI_upper.v - result.rows[n].CI_lower.v
              = 2 * 196 * std_pred.v

\* C2 (amended): a row whose prediction is at least 1.96 * std_pred has
\* width 2 * 1.96 * std_pred; a row whose prediction is below
\* 1.96 * std_pred has CI_lower = 0 and width prediction + 1.96 * std_pred.
C2_WidthUnlessClamped ==
    (Returned /\ ~result.isnull)
    => \A n \in DOMAIN result.rows :
          LET r == result.rows[n]
              p == Num(1000 * r.prediksi_jumlah)
              z == AddScaled(0, 196, std_pred)
          IN  /\ FGeq(p, z) =>
                    /\ ~r.CI_upper.nan /\ ~r.CI_lower.nan
                    /\ r.CI_upper.v - r.CI_lower.v = 2 * 196 * std_pred.v
              /\ (~p.nan /\ ~z.nan /\ p.v < z.v) =>
                    /\ ~r.CI_upper.nan /\ ~r.CI_lower.nan
                    /\ r.CI_lower.v = 0
                    /\ r.CI_upper.v - r.CI_lower.v
                           = 1000 * r.prediksi_jumlah + 196 * std_pred.v

\* A returned table with a positive std_pred that holds a row whose lower
\* bound is clamped and a row whose lower bound is not.
C2_Witness ==
    /\ Returned /\ ~result.isnull /\ ~std_pred.nan /\ std_pred.v > 0
    /\ \E n \in DOMAIN result.rows :
          1000 * result.rows[n].prediksi_jumlah < 196 * std_pred.v
    /\ \E n \in DOMAIN result.rows :
          1000 * result.rows[n].prediksi_jumlah > 196 * std_pred.v

\* C3 (as claimed): every returned row has predicted_quantity >= 0 and
\* CI_lower >= 0.
C3_NonNegative ==
    (Returned /\ ~result.isnull)
    => \A n \in DOMAIN result.rows :
          /\ result.rows[n].prediksi_jumlah >= 0
          /\ FGeq(result.rows[n].CI_lower, Num(0))

\* C4: when no prediction fails, lag_1 is the seed quantity at step 1 and
\* the product's prediction of step i-1 afterwards; lag_2 is the seed's
\* lag_1 at steps 1 and 2 and the prediction of step i-2 afterwards; lag_3
\* is the seed's lag_2 at steps 1 to 3 and the prediction of step i-3
\* afterwards.
C4_RolloutRecurrence ==
    (pc \in {"rollout", "done"} /\ model.fail = {})
    => \A n \in DOMAIN calls :
          LET c == calls[n]
              seed == SeedOf(c.item)
          IN  /\ c.outcome = "ok"
              /\ c.fv[1].lag_1 = IF c.step = 1 THEN seed.total_jumlah
                                 ELSE Recorded(c.item, c.step - 1)
              /\ c.fv[1].lag_2 = IF c.step <= 2 THEN seed.lag_1
                                 ELSE Recorded(c.item, c.step - 2)
              /\ c.fv[1].lag_3 = IF c.step <= 3 THEN seed.lag_2
                                 ELSE Recorded(c.item, c.step - 3)

\* A finished run without failures that reached step 4, whose first three
\* predictions for some product are pairwise different and differ from
\* the seed's lags.
C4_Witness ==
    /\ Returned /\ Accepted /\ model.fail = {} /\ months >= 4
    /\ \E c \in Range(calls) :
          /\ c.step = 4 /\ c.outcome = "ok"
          /\ Recorded(c.item, 1) # Recorded(c.item, 2)
          /\ Recorded(c.item, 2) # Recorded(c.item, 3)
          /\ Recorded(c.item, 1) # Recorded(c.item, 3)
          /\ Recorded(c.item, 1) # SeedOf(c.item).lag_2

\* C5 (as claimed): what the model is given and what is recorded for a
\* product at every step is the same as in the run on the feature table
\* without the rows of the other products, failures included.
C5_ProductIndependence ==
    (Returned /\ Accepted)
    => \A item \in ItemsOf(df) :
          LET alone == SelectSeq(df.rows, LAMBDA r : r.Nama_Item = item)
              log == RolloutLog(TailPerItem(alone), model,
                                ResidualStd(alone, model), months).calls
              given(l) == [n \in DOMAIN l |-> Given(l[n])]
          IN  given(CallsOf(calls, item)) = given(CallsOf(log, item))

\* C6: a run that passed the preconditions returns None with the "no
\* predictions" message when no attempt succeeded, and otherwise a table
\* holding exactly the rows of the successful attempts.
C6_EmptyResultIsFailure ==
    (Returned /\ Accepted)
    => LET ok == SelectSeq(calls, LAMBDA c : c.outcome = "ok")
       IN  /\ ok = <<>> =>
                /\ result.isnull
                /\ "Tidak ada prediksi yang berhasil dibuat" \in messages
           /\ ok # <<>> =>
                /\ ~result.isnull
                /\ Len(result.rows) = Len(ok)
                /\ Range(result.rows) =
                     Range(WithConfidenceLevel(
                               [n \in DOMAIN ok |-> ok[n].new[1]]))

\* A run in which every attempt failed and that returned None.
C6_Witness ==
    /\ Returned /\ Accepted /\ calls # <<>>
    /\ \A c \in Range(calls) : c.outcome # "ok"
    /\ result.isnull

\* C7: a call with a horizon outside 1..12, a null table or a null model
\* returns None with a message, records no row and never invokes the
\* model.
C7_PreconditionRejection ==
    (Returned /\ ~Accepted)
    => /\ result.isnull
       /\ messages # {}
       /\ future_preds = <<>>
       /\ calls = <<>>
       /\ ~residual_invoked

\* A returned call with a table and a model and the horizon 13.
C7_Witness ==
    /\ Returned /\ ~df.isnull /\ df.rows # <<>> /\ ~model.isnull
    /\ months = 13 /\ result.isnull

\* C8: the rows of a returned table are in ascending (product, period)
\* order.
C8_OutputSorted ==
    (Returned /\ ~result.isnull)
    => \A n \in 1..(Len(result.rows) - 1) :
          LET a == result.rows[n]
              b == result.rows[n + 1]
          IN  \/ ItemOrd(a.Nama_Item) < ItemOrd(b.Nama_Item)
              \/ a.Nama_Item = b.Nama_Item /\ a.periode <= b.periode

\* A returned table of two products and two steps, produced step-major.
C8_Witness ==
    /\ Returned /\ ~result.isnull /\ Len(future_preds) >= 4
    /\ future_preds[1].Nama_Item # future_preds[2].Nama_Item
    /\ result.rows[1].Nama_Item = result.rows[2].Nama_Item

C10_GroupingIsolation ==
    (pc = "built" /\ ~feature_table.isnull)
    => \A item \in Items :
          LET keep(t) == SelectSeq(t, LAMBDA r : r.Nama_Item = item)
              alone == PrepareFeatures([columns |-> raw.columns,
                                        rows |-> keep(raw.rows)])
          IN  ~alone.isnull => keep(feature_table.rows) = alone.rows

\* A feature table in which the product sorted last has earlier rows of
\* its own and rows of the other product before them.
C10_Witness ==
    /\ pc = "built" /\ ~feature_table.isnull
    /\ Len(feature_table.rows) >= 3
    /\ feature_table.rows[1].Nama_Item = "A"
    /\ feature_table.rows[Len(feature_table.rows)].Nama_Item = "B"
    /\ feature_table.rows[Len(feature_table.rows)].lag_1 # 0

Built == pc = "built" /\ ~feature_table.isnull

\* The rows of a product in the feature table, in table order.
FeatureRowsOf(item) ==
    SelectSeq(feature_table.rows, LAMBDA r : r.Nama_Item = item)

\* The rows of a product in the raw table, in ascending period order, rows
\* of one period in the order of the raw table: row n goes to the position
\* one past the number of rows that come before it.
RawRowsInPeriodOrder(item) ==
    LET own == SelectSeq(raw.rows, LAMBDA r : r.Nama_Item = item)
        per(n) == Period(own[n].Tahun.v, own[n].Bulan.v)
        rank(n) == 1 + Cardinality({m \in DOMAIN own :
                          per(m) < per(n) \/ (per(m) = per(n) /\ m < n)})
        F[j \in 0..Len(own)] ==
            IF j = 0 THEN <<>>
            ELSE Append(F[j - 1],
                        own[CHOOSE n \in DOMAIN own : rank(n) = j])
    IN  F[Len(own)]

LagOf(r, lag) == IF lag = 1 THEN r.lag_1 ELSE IF lag = 2 THEN r.lag_2
                 ELSE r.lag_3

\* C11: the feature rows of a product stand in ascending period order and
\* correspond one to one to its raw rows taken in that order, whatever the
\* order of the raw table; row j has lag_k equal to the quantity of row j-k
\* (k = 1, 2, 3, j > k) and diff_1 equal to its quantity minus that of row
\* j-1 (j > 1), wherever those quantities are numbers.
C11_LagsFollowPeriodOrder ==
    Built
    => \A item \in Items :
          LET feat == FeatureRowsOf(item)
              ref == RawRowsInPeriodOrder(item)
              isnum(j) == ref[j].total_jumlah.kind = "num"
              qty(j) == ref[j].total_jumlah.v
          IN  /\ Len(feat) = Len(ref)
              /\ \A j \in DOMAIN feat :
                    /\ feat[j].periode
                         = Period(ref[j].Tahun.v, ref[j].Bulan.v)
                    /\ j > 1 => feat[j - 1].periode <= feat[j].periode
                    /\ \A lag \in 1..3 :
                          (j > lag /\ isnum(j - lag))
                          => LagOf(feat[j], lag) = qty(j - lag)
                    /\ (j > 1 /\ isnum(j) /\ isnum(j - 1))
                          => feat[j].diff_1 = qty(j) - qty(j - 1)

\* A raw table that starts with a later month than its second row, for a
\* product with four rows whose fourth feature row has a lag_3 other than
\* its lag_1.
C11_Witness ==
    /\ Built
    /\ Len(raw.rows) >= 4
    /\ Period(raw.rows[1].Tahun.v, raw.rows[1].Bulan.v)
         > Period(raw.rows[2].Tahun.v, raw.rows[2].Bulan.v)
    /\ Len(FeatureRowsOf("A")) >= 4
    /\ FeatureRowsOf("A")[4].lag_3 = 3
    /\ FeatureRowsOf("A")[4].lag_1 = 1
    /\ FeatureRowsOf("A")[4].diff_1 = 2

\* C12: the first row of every product in period order has lag_1 = lag_2 =
\* lag_3 = diff_1 = 0 and ma_3 = ma_6 = its own quantity, and lag_k is 0 on
\* each of the product's first k rows.
C12_ColdStart ==
    Built
    => \A item \in Items :
          LET feat == FeatureRowsOf(item)
          IN  /\ \A j \in DOMAIN feat :
                    \A lag \in 1..3 : j <= lag => LagOf(feat[j], lag) = 0
              /\ feat # <<>>
                    => /\ feat[1].diff_1 = 0
                       /\ feat[1].ma_3 = 60 * feat[1].total_jumlah
                       /\ feat[1].ma_6 = 60 * feat[1].total_jumlah
                       /\ \A j \in DOMAIN feat :
                             feat[1].periode <= feat[j].periode

\* A product with three rows, the first of quantity 3, whose later rows
\* have lags that are not 0.
C12_Witness ==
    /\ Built
    /\ Len(FeatureRowsOf("B")) >= 3
    /\ FeatureRowsOf("B")[1].total_jumlah = 3
    /\ FeatureRowsOf("B")[1].ma_6 = 180
    /\ FeatureRowsOf("B")[3].lag_2 = 3
    /\ FeatureRowsOf("B")[3].lag_3 = 0

\* The month of a raw row is a number outside 1..12.
MonthOutOfRange(r) ==
    r.Bulan.kind = "num" /\ (r.Bulan.v < 1 \/ r.Bulan.v > 12)

\* C13: a raw table that lacks a required column, has no rows or holds a
\* month outside 1..12 yields no feature table and the validation error of
\* its defect.
C13_SchemaRejection ==
    pc = "built"
    => /\ RequiredCols \ raw.columns # {}
            => /\ feature_table.isnull
               /\ "Kolom yang diperlukan tidak ditemukan" \in messages
       /\ (RequiredCols \subseteq raw.columns /\ raw.rows = <<>>)
            => /\ feature_table.isnull
               /\ "Dataframe kosong" \in messages
       /\ (RequiredCols \subseteq raw.columns
            /\ \E n \in DOMAIN raw.rows : MonthOutOfRange(raw.rows[n]))
            => /\ feature_table.isnull
               /\ "Bulan harus antara 1-12" \in messages

\* A rejected table with all columns whose second row holds month 13
\* behind a row that is in order.
C13_Witness ==
    /\ pc = "built" /\ feature_table.isnull
    /\ RequiredCols \subseteq raw.columns
    /\ Len(raw.rows) >= 2
    /\ ~MonthOutOfRange(raw.rows[1]) /\ MonthOutOfRange(raw.rows[2])
    /\ messages = {"Bulan harus antara 1-12"}

\* C14 (as claimed): a raw table with every required column, at least one
\* row and every month that it holds within 1..12 yields a feature table,
\* also when a year is outside 1900..2100, a quantity is negative or a
\* cell of a required column is null.
C14_AdvisoryIssuesDoNotBlock ==
    (/\ pc = "built"
     /\ RequiredCols \subseteq raw.columns
     /\ raw.rows # <<>>
     /\ \A n \in DOMAIN raw.rows :
           /\ ~MonthOutOfRange(raw.rows[n])
           /\ raw.rows[n].Tahun.kind # "text"
           /\ raw.rows[n].Bulan.kind # "text"
           /\ raw.rows[n].total_jumlah.kind # "text")
    => ~feature_table.isnull

\* The (year, month, product, quantity) of a raw row as fillna(0) leaves it.
RawKey(r) ==
    <<r.Tahun.v, r.Bulan.v,
      IF r.Nama_Item = NullName THEN "0" ELSE r.Nama_Item,
      IF r.total_jumlah.kind = "num" THEN r.total_jumlah.v ELSE 0>>

FeatureKey(r) == <<r.Tahun, r.Bulan, r.Nama_Item, r.total_jumlah>>

\* C15: a feature table has exactly one row per raw row, rows of the same
\* year, month and product included; every cell of the feature columns is
\* a number, and the lags, moving averages and difference of a row without
\* product are 0.
C15_ShapePreserved ==
    Built
    => /\ Len(feature_table.rows) = Len(raw.rows)
       /\ \A key \in {RawKey(raw.rows[n]) : n \in DOMAIN raw.rows} :
             Cardinality({n \in DOMAIN raw.rows : RawKey(raw.rows[n]) = key})
             = Cardinality({n \in DOMAIN feature_table.rows :
                              FeatureKey(feature_table.rows[n]) = key})
       /\ \A r \in Range(feature_table.rows) :
             /\ \A col \in {"total_jumlah", "lag_1", "lag_2", "lag_3",
                             "ma_3", "ma_6", "diff_1"} : r[col] \in Int
             /\ r.Nama_Item = "0"
                  => /\ r.lag_1 = 0 /\ r.lag_2 = 0 /\ r.lag_3 = 0
                     /\ r.ma_3 = 0 /\ r.ma_6 = 0 /\ r.diff_1 = 0

\* A feature table of three rows built from a raw table that holds the
\* same record twice and a row with a null quantity.
C15_Witness ==
    /\ Built
    /\ Len(feature_table.rows) = 3
    /\ \E a, b, c \in DOMAIN raw.rows :
          /\ a # b /\ raw.rows[a] = raw.rows[b]
          /\ raw.rows[a].total_jumlah.kind = "num"
          /\ raw.rows[c].total_jumlah.kind = "null"

\* C16: a call of prepare_features, successful or not, leaves the frame it
\* was given as it was: columns, rows, their order and their cells.
C16_RawTableUnchanged == [][raw' = raw]_vars

\* A feature table built from a raw table whose rows were not in sorted
\* order and which holds a text where validation expects a number.
C16_Witness ==
    /\ Built
    /\ Len(raw.rows) >= 2
    /\ raw.rows[1].Nama_Item = "B" /\ raw.rows[2].Nama_Item = "A"
    /\ \E n \in DOMAIN raw.rows : raw.rows[n].total_jumlah.kind = "text"

\* Whether a prediction was recorded for a product at a step of the run.
HasPred(item, step) ==
    \E c \in Range(calls) : c.item = item /\ c.step = step /\ c.new # <<>>

NoFailure == \A c \in Range(calls) : c.outcome = "ok"

\* The lags a call gave to the model.
LagsOf(c) == <<c.fv[1].lag_1, c.fv[1].lag_2, c.fv[1].lag_3>>

\* Content of a three-cell shift register before a step: initialised with
\* (seed quantity, seed lag_1, seed lag_2), each recorded prediction pushed.
Register(item, step) ==
    LET seed == SeedOf(item)
        B[s \in 1..step] ==
            IF s = 1 THEN <<seed.total_jumlah, seed.lag_1, seed.lag_2>>
            ELSE <<Recorded(item, s - 1), B[s - 1][1], B[s - 1][2]>>
    IN  B[step]

\* C17 (as claimed): when no prediction fails, the lags given to the model
\* at every step are the content of the shift register.
C17_RegisterAtEveryStep ==
    NoFailure
    => \A c \in Range(calls) : LagsOf(c) = Register(c.item, c.step)

\* C17 (amended): when no prediction fails, lag_1 is the head of the
\* register at every step, lag_2 its second cell at every step but 2 and
\* lag_3 its third cell at every step but 2 and 3; at step 2 lag_2 and
\* lag_3 are the seed's lag_1 and lag_2, at step 3 lag_3 is the seed's
\* lag_2.
C17_RegisterFromStepFour ==
    NoFailure
    => \A c \in Range(calls) :
          LET reg == Register(c.item, c.step)
              seed == SeedOf(c.item)
              lags == LagsOf(c)
          IN  /\ lags[1] = reg[1]
              /\ c.step # 2 => lags[2] = reg[2]
              /\ c.step \notin {2, 3} => lags[3] = reg[3]
              /\ c.step = 2 => lags[2] = seed.lag_1 /\ lags[3] = seed.lag_2
              /\ c.step = 3 => lags[3] = seed.lag_2

\* A finished run without failure over four steps, whose step 2 was given
\* a lag_2 other than the register's second cell.
C17_Witness ==
    /\ pc = "done" /\ NoFailure /\ ~result.isnull
    /\ \E c \in Range(calls) : c.step = 4
    /\ \E c \in Range(calls) :
          c.step = 2 /\ LagsOf(c)[2] # Register(c.item, 2)[2]

\* C18 (as claimed): at a step i >= 2 at which the product's prediction of
\* step i-1 is absent, the lag_1 given to the model is the seed's lag_1.
C18_FallbackIsSeedLag1 ==
    \A c \in Range(calls) :
        (c.step >= 2 /\ ~HasPred(c.item, c.step - 1) /\ c.fv # <<>>)
        => c.fv[1].lag_1 = SeedOf(c.item).lag_1

\* C18 (amended): whenever the model is invoked at a step i >= 2 at which
\* the product's prediction of step i-1 is absent, the lag_1 it is given is
\* the seed row's quantity.
C18_FallbackIsSeedQuantity ==
    \A c \in Range(calls) :
        (c.step >= 2 /\ ~HasPred(c.item, c.step - 1) /\ c.fv # <<>>)
        => c.fv[1].lag_1 = SeedOf(c.item).total_jumlah

\* The model invoked at a step whose previous prediction is absent, for a
\* seed whose quantity differs from its lag_1.
C18_Witness ==
    \E c \in Range(calls) :
        /\ c.step >= 2 /\ ~HasPred(c.item, c.step - 1) /\ c.fv # <<>>
        /\ SeedOf(c.item).total_jumlah # SeedOf(c.item).lag_1

\* C19 (as claimed): whenever the model is invoked at a step i >= 3, lag_2
\* is the prediction of step i-2 if it exists and the seed's lag_1 if not;
\* at a step i >= 4, lag_3 is the prediction of step i-3 if it exists and
\* the seed's lag_2 if not; also when the prediction of step i-1 is absent.
C19_EarlierPredictionsAlwaysUsed ==
    \A c \in Range(calls) :
        c.fv # <<>>
        => LET seed == SeedOf(c.item)
           IN  /\ c.step >= 3
                    => c.fv[1].lag_2 =
                         IF HasPred(c.item, c.step - 2)
                         THEN Recorded(c.item, c.step - 2) ELSE seed.lag_1
               /\ c.step >= 4
                    => c.fv[1].lag_3 =
                         IF HasPred(c.item, c.step - 3)
                         THEN Recorded(c.item, c.step - 3) ELSE seed.lag_2

\* C19 (amended): whenever the model is invoked at a step i >= 3 at which
\* the prediction of step i-1 exists, lag_2 is the prediction of step i-2
\* if it exists and the seed's lag_1 if not, and from step 4 on lag_3 is
\* the prediction of step i-3 if it exists and the seed's lag_2 if not;
\* when the prediction of step i-1 is absent, lag_2 and lag_3 are the
\* seed's lag_1 and lag_2 whatever earlier predictions exist.
C19_EarlierPredictionsUsedAfterSuccess ==
    \A c \in Range(calls) :
        (c.fv # <<>> /\ c.step >= 3)
        => LET seed == SeedOf(c.item)
           IN  IF HasPred(c.item, c.step - 1)
               THEN /\ c.fv[1].lag_2 =
                         IF HasPred(c.item, c.step - 2)
                         THEN Recorded(c.item, c.step - 2) ELSE seed.lag_1
                    /\ c.step >= 4
                         => c.fv[1].lag_3 =
                              IF HasPred(c.item, c.step - 3)
                              THEN Recorded(c.item, c.step - 3)
                              ELSE seed.lag_2
               ELSE /\ c.fv[1].lag_2 = seed.lag_1
                    /\ c.fv[1].lag_3 = seed.lag_2

\* The model invoked at a step i >= 3 after a failure at step i-1, while
\* the prediction of step i-2 exists and differs from the seed's lag_1.
C19_Witness ==
    \E c \in Range(calls) :
        /\ c.fv # <<>> /\ c.step >= 3
        /\ ~HasPred(c.item, c.step - 1) /\ HasPred(c.item, c.step - 2)
        /\ Recorded(c.item, c.step - 2) # SeedOf(c.item).lag_1

\* The forecast rows held at a state: accumulated and returned.
ForecastRows ==
    Range(future_preds) \cup (IF result.isnull THEN {} ELSE Range(result.rows))

\* C20: every forecast row has CI_upper = prediction + 1.96 * std_pred and
\* CI_lower = max(prediction - 1.96 * std_pred, 0) as the floating-point
\* expressions evaluate (both NaN when std_pred is NaN), with the one
\* std_pred of the call, so that CI_upper - prediction is the same for
\* every row of every product and step.
C20_GlobalBand ==
    /\ \A r \in ForecastRows :
          IF std_pred.nan
          THEN r.CI_upper.nan /\ r.CI_lower.nan
          ELSE /\ ~r.CI_upper.nan /\ ~r.CI_lower.nan
               /\ r.CI_upper.v = 1000 * r.prediksi_jumlah + 196 * std_pred.v
               /\ r.CI_lower.v =
                    IF 1000 * r.prediksi_jumlah >= 196 * std_pred.v
                    THEN 1000 * r.prediksi_jumlah - 196 * std_pred.v ELSE 0
    /\ \A r1, r2 \in ForecastRows :
          /\ r1.CI_upper.nan = r2.CI_upper.nan
          /\ ~r1.CI_upper.nan
               => r1.CI_upper.v - 1000 * r1.prediksi_jumlah
                    = r2.CI_upper.v - 1000 * r2.prediksi_jumlah

\* A returned table over two products and three steps with a positive
\* std_pred, holding different predictions.
C20_Witness ==
    /\ pc = "done" /\ ~result.isnull
    /\ ~std_pred.nan /\ std_pred.v > 0
    /\ \E r1, r2 \in Range(result.rows) :
          /\ r1.Nama_Item # r2.Nama_Item
          /\ r1.prediksi_jumlah # r2.prediksi_jumlah
          /\ r2.periode >= r1.periode + 2

\* C21: at every step of every product the ma_6 given to the model is the
\* seed row's ma_6, 0 if that is missing, whatever predictions have been
\* recorded before.
C21_Ma6Frozen ==
    \A c \in Range(calls) :
        c.fv # <<>>
        => c.fv[1].ma_6 = (IF "ma_6" \in SeedOf(c.item).na THEN 0
                           ELSE SeedOf(c.item).ma_6)

\* The model invoked at a third step after two recorded predictions whose
\* mean with the seed quantity is not the seed's ma_6.
C21_Witness ==
    \E c \in Range(calls) :
        /\ c.fv # <<>> /\ c.step >= 3
        /\ HasPred(c.item, 1) /\ HasPred(c.item, 2)
        /\ "ma_6" \notin SeedOf(c.item).na
        /\ SeedOf(c.item).ma_6 > 0
        /\ 20 * (Recorded(c.item, 1) + Recorded(c.item, 2)
                 + SeedOf(c.item).total_jumlah) # SeedOf(c.item).ma_6

\* C22: the vector given to the model at step i of a product has the year
\* and month of the seed period advanced by i calendar months (after
\* month 12 comes month 1 of the next year), quarter = ceil(month / 3),
\* is_start_year = 1 iff month = 1, is_end_year = 1 iff month = 12,
\* ma_3 = (lag_1 + lag_2 + lag_3) / 3 and diff_1 = lag_1 - lag_2 of the
\* step's own lags; a recorded row carries that period.
C22_StepFeatureVector ==
    \A c \in Range(calls) :
        c.fv # <<>>
        => LET seed == SeedOf(c.item)
               fv == c.fv[1]
               months_on == seed.Bulan + c.step - 1
               month == (months_on % 12) + 1
               year == seed.Tahun + (months_on \div 12)
           IN  /\ fv.Tahun = year /\ fv.Bulan = month
               /\ 3 * (fv.quarter - 1) < month /\ month <= 3 * fv.quarter
               /\ fv.is_start_year = (IF month = 1 THEN 1 ELSE 0)
               /\ fv.is_end_year = (IF month = 12 THEN 1 ELSE 0)
               /\ 3 * fv.ma_3 = 60 * (fv.lag_1 + fv.lag_2 + fv.lag_3)
               /\ fv.diff_1 = fv.lag_1 - fv.lag_2
               /\ c.new # <<>>
                    => c.new[1].periode = Period(year, month)

\* The model invoked for a November seed at step 1 (December, the end of
\* the year) and at step 3 (February of the next year) with lags that
\* differ from the seed row's own.
C22_Witness ==
    /\ \E c \in Range(calls) :
          /\ c.fv # <<>> /\ c.step = 1
          /\ SeedOf(c.item).Bulan = 11 /\ c.fv[1].is_end_year = 1
    /\ \E c \in Range(calls) :
          /\ c.fv # <<>> /\ c.step = 3
          /\ SeedOf(c.item).Bulan = 11
          /\ c.fv[1].Tahun = SeedOf(c.item).Tahun + 1
          /\ c.fv[1].Bulan = 2 /\ c.fv[1].quarter = 1
          /\ c.fv[1].ma_3 # SeedOf(c.item).ma_3
          /\ c.fv[1].diff_1 # SeedOf(c.item).diff_1

\* The rollout has begun: the seeds were taken from the table.
Seeded == pc = "rollout" \/ (pc = "done" /\ Accepted)

\* C23 (as claimed): the rollout uses exactly one seed row per product of
\* the table it is given, and that row is a row of the product with the
\* greatest period, whatever the order of the rows of the table.
C23_SeedIsLatestRow ==
    Seeded
    => /\ \A item \in ItemsOf(df) :
             Cardinality({n \in DOMAIN last_data :
                             last_data[n].Nama_Item = item}) = 1
       /\ \A s \in Range(last_data) :
             /\ s \in Range(df.rows)
             /\ \A r \in Range(df.rows) :
                   r.Nama_Item = s.Nama_Item => r.periode <= s.periode

\* C24: for the rows of a product in ascending period order, ma_3 of the
\* row at position j is the mean of the quantities at the positions
\* max(1, j-2)..j and ma_6 the mean of those at max(1, j-5)..j (in 60ths),
\* taken over the raw quantities that are numbers, 0 if there is none;
\* the zeros that fill the lags do not enter it.
C24_TrailingMeans ==
    Built
    => \A item \in Items :
          LET feat == FeatureRowsOf(item)
              ref == RawRowsInPeriodOrder(item)
              lo(j, size) == IF j > size THEN j - size + 1 ELSE 1
              nums(j, size) ==
                  {m \in lo(j, size)..j : ref[m].total_jumlah.kind = "num"}
              total(j, size) ==
                  SumSeq([m \in 1..j |->
                             IF m \in nums(j, size)
                             THEN ref[m].total_jumlah.v ELSE 0])
              mean(j, size, ma) ==
                  IF nums(j, size) = {} THEN ma = 0
                  ELSE ma * Cardinality(nums(j, size))
                         = 60 * total(j, size)
          IN  \A j \in DOMAIN feat :
                 /\ mean(j, 3, feat[j].ma_3)
                 /\ mean(j, 6, feat[j].ma_6)

\* A product with seven months given latest first, whose seventh feature
\* row has fallen out of the window of six: its first month sold 3, all
\* the later ones 1.
C24_Witness ==
    /\ Built
    /\ Len(raw.rows) >= 7
    /\ raw.rows[1].Bulan.v = 3 /\ raw.rows[2].Bulan.v = 2
    /\ Len(FeatureRowsOf("B")) >= 7
    /\ FeatureRowsOf("B")[1].total_jumlah = 3
    /\ FeatureRowsOf("B")[6].ma_6 = 80
    /\ FeatureRowsOf("B")[7].ma_6 = 60
    /\ FeatureRowsOf("B")[3].ma_3 = 100
    /\ FeatureRowsOf("B")[4].ma_3 = 60

\* The attempts made for a seed row at a step.
AttemptsOf(item, step) ==
    {n \in DOMAIN calls : calls[n].item = item /\ calls[n].step = step}

\* C25: when the table holds no row without a missing value, or the model
\* raises in the residual estimate, std_pred is 0, every seed row is
\* attempted at every step and every produced row has CI_lower = CI_upper
\* = its prediction.
C25_DegenerateUncertainty ==
    (Seeded /\ (DropNa(df.rows) = <<>> \/ model.batch_fail))
    => /\ std_pred = Num(0)
       /\ \A r \in ForecastRows :
             /\ r.CI_lower = Num(1000 * r.prediksi_jumlah)
             /\ r.CI_upper = Num(1000 * r.prediksi_jumlah)
       /\ pc = "done"
            => \A s \in Range(last_data) : \A step \in 1..months :
                  AttemptsOf(s.Nama_Item, step) # {}

\* A returned table made from a table of two rows that both lack ma_6: no
\* row is left for the residuals, and a positive prediction was recorded
\* at the second step.
C25_Witness ==
    /\ pc = "done" /\ ~result.isnull
    /\ Len(df.rows) = 2 /\ DropNa(df.rows) = <<>>
    /\ \E c \in Range(calls) :
          /\ c.step = 2 /\ c.new # <<>>
          /\ c.new[1].prediksi_jumlah > 0
          /\ c.new[1].CI_upper = Num(1000 * c.new[1].prediksi_jumlah)

\* C26 (as claimed): every row of every returned forecast table has
\* CI_lower <= prediction <= CI_upper.
C26_BandEnclosesForecast ==
    (Returned /\ ~result.isnull)
    => \A r \in Range(result.rows) :
          /\ FGeq(Num(1000 * r.prediksi_jumlah), r.CI_lower)
          /\ FGeq(r.CI_upper, Num(1000 * r.prediksi_jumlah))

\* The attempts made so far are the first ones of the enumeration of the
\* (step, seed row) pairs with the step outermost.
StepMajorSoFar ==
    \A n \in DOMAIN calls :
        /\ calls[n].step = ((n - 1) \div Len(last_data)) + 1
        /\ calls[n].item
             = last_data[((n - 1) % Len(last_data)) + 1].Nama_Item

\* C27: the call always ends; the attempts are made in step-major order,
\* one per seed row and step in 1..months, whether or not earlier attempts
\* failed.
C27_TerminatesInStepMajorOrder ==
    <>(/\ pc = "done"
       /\ StepMajorSoFar
       /\ Accepted => Len(calls) = Len(last_data) * months)

\* A finished call over two products and at least two steps in which an
\* attempt of the first step failed and every later attempt was made.
C27_Witness ==
    /\ pc = "done" /\ Accepted
    /\ Len(last_data) = 2 /\ months >= 2
    /\ Len(calls) = 2 * months
    /\ calls[1].outcome = "model_raised"
    /\ calls[Len(calls)].outcome = "ok"

\* What the model returned in an attempt that reached it.
RawOutput(c) == Predict(model.kind, c.fv[1])

\* C28: a lag that a step takes from the accumulated predictions is the
\* recorded prediction of that product, which is the model's output
\* clamped at 0; with seed rows whose quantity and lags are not negative,
\* every lag given to the model is at least 0.
C28_OnlyClampedFedBack ==
    \A n \in DOMAIN calls :
        LET c == calls[n]
        IN  c.fv # <<>>
            => /\ \A j \in 1..3 :
                     /\ LagsOf(c)[j] >= 0
                     /\ LagsOf(c)[j] \in
                          {r.prediksi_jumlah :
                              r \in {q \in Range(future_preds) :
                                        q.Nama_Item = c.item}}
                          \cup UNION {{s.total_jumlah, s.lag_1, s.lag_2} :
                                        s \in {t \in Range(last_data) :
                                                  t.Nama_Item = c.item}}
               /\ c.new # <<>>
                    => c.new[1].prediksi_jumlah = Max(RawOutput(c), 0)
               /\ \A m \in 1..(n - 1) :
                     LET d == calls[m]
                     IN  (d.item = c.item /\ d.step = c.step - 1
                            /\ d.new # <<>>)
                         => /\ c.fv[1].lag_1 = d.new[1].prediksi_jumlah
                            /\ c.fv[1].lag_1 = Max(RawOutput(d), 0)

\* An attempt at a later step whose lag_1 is the 0 recorded for a negative
\* output of the model at the step before.
C28_Witness ==
    \E n \in DOMAIN calls : \E m \in 1..(n - 1) :
        /\ calls[m].item = calls[n].item
        /\ calls[m].step = calls[n].step - 1
        /\ calls[m].new # <<>>
        /\ RawOutput(calls[m]) < 0
        /\ calls[n].fv # <<>>
        /\ calls[n].fv[1].lag_1 = 0

\* The periods of the rows of a product in a sequence of forecast rows.
PeriodsOf(rows, item) ==
    {rows[n].periode : n \in {x \in DOMAIN rows : rows[x].Nama_Item = item}}

\* C29: the accumulated predictions never hold two rows of one (product,
\* period); when the model raises in no attempt, the table returned for P
\* seed rows (P >= 1) and horizon H has P * H rows, no two of one
\* (product, period), and the periods of each product are the H months
\* after the period of its seed row.
C29_ForecastTableShape ==
    /\ Cardinality(Keys(future_preds)) = Len(future_preds)
    /\ (pc = "done" /\ Accepted /\ model.fail = {} /\ last_data # <<>>)
         => /\ ~result.isnull
            /\ Len(result.rows) = Len(last_data) * months
            /\ Cardinality(Keys(result.rows)) = Len(result.rows)
            /\ \A s \in Range(last_data) :
                  PeriodsOf(result.rows, s.Nama_Item)
                    = {AddMonths(s.periode, j) : j \in 1..months}

\* A table returned for two products whose seed rows are of different
\* months, over a horizon of three months or more.
C29_Witness ==
    /\ pc = "done" /\ Accepted /\ model.fail = {}
    /\ Len(last_data) = 2
    /\ last_data[1].periode # last_data[2].periode
    /\ months >= 3
    /\ ~result.isnull
    /\ Len(result.rows) = 2 * months

\* C30 (as claimed): whenever the session holds a future_df, it was
\* computed from the session's current uploaded_df, and so was every
\* forecast the stock page displayed, when it displayed it.
C30_ForecastOfCurrentData ==
    /\ ~session_state.future_df.isnull
         => session_state.future_of = session_state.uploaded_df
    /\ ~session_state.page3.future_df.isnull
         => session_state.page3.of = session_state.page3.data

====
